---------------------------- MODULE Spec2Model ----------------------------
(***************************************************************************)
(* A model of astar-helper: the indexed binary min-heap OpenList           *)
(* (src/src/open_list.rs) and the two search drivers untraced_astar and    *)
(* traced_astar that run on top of it.                                     *)
(***************************************************************************)
EXTENDS Integers, Sequences, FiniteSets

(***************************************************************************)
(* Bounds of the model.                                                    *)
(***************************************************************************)
NumKeys == 4        \* keys offered to the open list are 1..NumKeys
MaxG    == 1        \* g_cost of a TestState is 0..MaxG
MaxH    == 1        \* h_cost of a TestState, and h() of a node, is 0..MaxH
NumNodes == 3       \* a search space has the nodes 1..NumNodes; node 1 is the start
MaxCost == 1        \* an edge of a search space costs 0..MaxCost

Keys == 1..NumKeys
Nodes == 1..NumNodes

VARIABLES
    open_list,      \* the OpenList under test: [heap, map]
    last,           \* the last call made on open_list, its arguments and result
    run,            \* the states returned by extract_min since the last insert
    runStart,       \* the keys held when that run of extract_min calls began
    live,           \* the keys inserted and not yet returned by extract_min
    everMin,        \* key -> the smallest f() ever inserted under that key
    sinceMin        \* key -> the smallest f() inserted under it since it was last absent

VARIABLES
    space,          \* the caller's search space: [w, goals, hOf, keyOf]
    u_pc,           \* untraced_astar: "start", "loop" or "done"
    u_open_list,    \* untraced_astar: open_list
    u_closed_list,  \* untraced_astar: closed_list, a HashSet of keys
    u_result,       \* untraced_astar: the Option<UntracedResult> returned
    u_trace,        \* untraced_astar: the states extract_min returned, in order
    u_discarded,    \* untraced_astar: the keys of successors skipped as closed
    t_pc,           \* traced_astar: "start", "loop" or "done"
    t_open_list,    \* traced_astar: open_list, of TracedStateWrapper
    t_closed_list,  \* traced_astar: closed_list, a HashMap key -> wrapper
    t_result,       \* traced_astar: the Option<TracedResult> returned
    t_trace,        \* traced_astar: the wrappers extract_min returned, in order
    t_discarded,    \* traced_astar: the keys of successors skipped as closed
    t_goal          \* traced_astar: closed_list as it was when the goal was
                    \* extracted, and how the backtracking loop was left

olvars == <<open_list, last, run, runStart, live, everMin, sinceMin>>
uvars == <<u_pc, u_open_list, u_closed_list, u_result, u_trace, u_discarded>>
tvars == <<t_pc, t_open_list, t_closed_list, t_result, t_trace, t_discarded, t_goal>>
searchvars == <<space, uvars, tvars>>
vars == <<olvars, searchvars>>

(***************************************************************************)
(* Option<T>: None is the empty sequence, Some(v) the one-element one.     *)
(***************************************************************************)
None == <<>>
Some(v) == <<v>>

(***************************************************************************)
(* trait AStarState, and its three implementations:                       *)
(*   - TestState of the open list's tests, a record [id, g, h];            *)
(*   - a state of the caller's search space, a record [node, g]: the node  *)
(*     it stands on and the cost accumulated on the way there; its key,    *)
(*     h() and is_goal() are those the space gives the node, f() = g + h;  *)
(*   - TracedStateWrapper, a record [state, prev_key, change], which       *)
(*     forwards all five methods to its state.                             *)
(***************************************************************************)
TestState == [id : Keys, g : 0..MaxG, h : 0..MaxH]

Unwrap(v) == IF "state" \in DOMAIN v THEN v.state ELSE v

key(v) == LET s == Unwrap(v)
          IN  IF "node" \in DOMAIN s THEN space.keyOf[s.node] ELSE s.id
h(v) == LET s == Unwrap(v)
        IN  IF "node" \in DOMAIN s THEN space.hOf[s.node] ELSE s.h
g(v) == Unwrap(v).g
\* f() that a TracedStateWrapper forwards to g() of its state
f_wrapper_forwards_g(v) == IF "state" \in DOMAIN v THEN g(v) ELSE g(v) + h(v)

f(v) == g(v) + h(v)
is_goal(v) == LET s == Unwrap(v)
              IN  IF "node" \in DOMAIN s THEN s.node \in space.goals ELSE s.h = 0

(***************************************************************************)
(* HashMap<K, usize>: a function on the set of keys it holds.              *)
(***************************************************************************)
EmptyMap == [k \in {} |-> 0]
MapInsert(m, k, i) == [x \in (DOMAIN m) \cup {k} |-> IF x = k THEN i ELSE m[x]]
MapRemove(m, k) == [x \in (DOMAIN m) \ {k} |-> m[x]]

(***************************************************************************)
(* OpenList.  heap is Vec<(K, V)>: a sequence of pairs <<key, value>>.     *)
(* The code's indices are 0-based; At reads the vector at such an index.   *)
(***************************************************************************)
At(heap, i) == heap[i + 1]

\* new that keeps an unused entry at position 0, as heaps indexed from 1 do
new_with_sentinel ==
    [heap |-> <<<<0, [id |-> 0, g |-> 0, h |-> 0]>>>>, map |-> EmptyMap]

new == [heap |-> <<>>, map |-> EmptyMap]

is_empty(ol) == ol.heap = <<>>

\* min that reads the last element of the vector
min_last(ol) == IF ol.heap = <<>> THEN None ELSE Some(ol.heap[Len(ol.heap)][2])

min(ol) == IF ol.heap = <<>> THEN None ELSE Some(At(ol.heap, 0)[2])

\* swap that exchanges the entries and leaves the index map as it was
swap_heap_only(ol, i, j) ==
    [ol EXCEPT !.heap = [ol.heap EXCEPT ![i + 1] = ol.heap[j + 1],
                                        ![j + 1] = ol.heap[i + 1]]]

swap(ol, i, j) ==
    LET hp == [ol.heap EXCEPT ![i + 1] = ol.heap[j + 1],
                              ![j + 1] = ol.heap[i + 1]]
        key_i == At(hp, i)[1]
        key_j == At(hp, j)[1]
    IN  [heap |-> hp,
         map  |-> MapInsert(MapInsert(ol.map, key_i, i), key_j, j)]

RECURSIVE bubble_up(_, _)
bubble_up(ol, current) ==
    IF current > 0
    THEN LET parent == (current - 1) \div 2
             current_cost == f(At(ol.heap, current)[2])
             parent_cost == f(At(ol.heap, parent)[2])
         IN  IF current_cost >= parent_cost
             THEN ol
             ELSE bubble_up(swap(ol, current, parent), parent)
    ELSE ol

\* buble_down that never looks at the right child
RECURSIVE buble_down_left_only(_, _)
buble_down_left_only(ol, current) ==
    LET len == Len(ol.heap)
        left == 2 * current + 1
        smallest == IF left < len /\ f(At(ol.heap, left)[2]) < f(At(ol.heap, current)[2])
                    THEN left ELSE current
    IN  IF smallest = current
        THEN ol
        ELSE buble_down_left_only(swap(ol, current, smallest), smallest)

RECURSIVE buble_down(_, _)
buble_down(ol, current) ==
    LET len == Len(ol.heap)
        left == 2 * current + 1
        right == 2 * current + 2
        s1 == IF left < len /\ f(At(ol.heap, left)[2]) < f(At(ol.heap, current)[2])
              THEN left ELSE current
        smallest == IF right < len /\ f(At(ol.heap, right)[2]) < f(At(ol.heap, s1)[2])
                    THEN right ELSE s1
    IN  IF smallest = current
        THEN ol
        ELSE buble_down(swap(ol, current, smallest), smallest)

\* pop and extract_min return the pair of the list afterwards and the Option<V>
pop(ol) ==
    IF ol.heap = <<>>
    THEN [ol |-> ol, ret |-> None]
    ELSE LET last_index == Len(ol.heap) - 1
             value == At(ol.heap, last_index)[2]
         IN  [ol  |-> [heap |-> SubSeq(ol.heap, 1, last_index),
                       map  |-> MapRemove(ol.map, key(value))],
              ret |-> Some(value)]

\* insert that replaces a held entry on an equal f() too
insert_replace_on_equal(ol, k, value) ==
    IF k \in DOMAIN ol.map
    THEN LET index == ol.map[k]
         IN  IF f(value) <= f(At(ol.heap, index)[2])
             THEN bubble_up([ol EXCEPT !.heap[index + 1] = <<k, value>>], index)
             ELSE ol
    ELSE bubble_up([heap |-> Append(ol.heap, <<k, value>>),
                    map  |-> MapInsert(ol.map, k, Len(ol.heap))], Len(ol.heap))

\* insert that never consults the index map and always pushes
insert_push_always(ol, k, value) ==
    bubble_up([heap |-> Append(ol.heap, <<k, value>>),
               map  |-> MapInsert(ol.map, k, Len(ol.heap))], Len(ol.heap))

\* insert that never replaces a held entry
insert_never_replace(ol, k, value) ==
    IF k \in DOMAIN ol.map
    THEN ol
    ELSE bubble_up([heap |-> Append(ol.heap, <<k, value>>),
                    map  |-> MapInsert(ol.map, k, Len(ol.heap))], Len(ol.heap))

\* insert that, replacing a held wrapper, takes the state of the new one and
\* keeps the predecessor key and the label of the old one
insert_keeping_bookkeeping(ol, k, value) ==
    IF k \in DOMAIN ol.map
    THEN LET index == ol.map[k]
             held == At(ol.heap, index)[2]
             kept == IF "state" \in DOMAIN value
                     THEN [value EXCEPT !.prev_key = held.prev_key,
                                        !.change = held.change]
                     ELSE value
         IN  IF f(value) < f(held)
             THEN bubble_up([ol EXCEPT !.heap[index + 1] = <<k, kept>>], index)
             ELSE ol
    ELSE bubble_up([heap |-> Append(ol.heap, <<k, value>>),
                    map  |-> MapInsert(ol.map, k, Len(ol.heap))], Len(ol.heap))

insert(ol, k, value) ==
    LET value_f == f(value)
    IN  IF k \in DOMAIN ol.map
        THEN LET index == ol.map[k]
             IN  IF value_f < f(At(ol.heap, index)[2])
                 THEN bubble_up([ol EXCEPT !.heap[index + 1] = <<k, value>>], index)
                 ELSE ol
        ELSE LET index == Len(ol.heap)
             IN  bubble_up([heap |-> Append(ol.heap, <<k, value>>),
                            map  |-> MapInsert(ol.map, k, index)], index)

\* extract_min that leaves the former last element at the root
extract_min_no_sift(ol) ==
    IF ol.heap = <<>>
    THEN [ol |-> ol, ret |-> None]
    ELSE pop(swap(ol, 0, Len(ol.heap) - 1))

\* extract_min that pops the last element without moving the root there
extract_min_no_swap(ol) ==
    IF ol.heap = <<>>
    THEN [ol |-> ol, ret |-> None]
    ELSE pop(ol)

extract_min(ol) ==
    IF ol.heap = <<>>
    THEN [ol |-> ol, ret |-> None]
    ELSE LET last_index == Len(ol.heap) - 1
             popped == pop(swap(ol, 0, last_index))
         IN  [ol  |-> IF popped.ol.heap # <<>>
                      THEN buble_down(popped.ol, 0)
                      ELSE popped.ol,
              ret |-> popped.ret]

(***************************************************************************)
(* The open list driven by an arbitrary caller: any sequence of insert,    *)
(* extract_min, min and is_empty calls, with key = state.key().            *)
(***************************************************************************)
HeldKeys(ol) == {ol.heap[i][1] : i \in DOMAIN ol.heap}
Entry(ol, k) == CHOOSE e \in {ol.heap[i] : i \in DOMAIN ol.heap} : e[1] = k

Least(a, b) == IF a <= b THEN a ELSE b

\* no search space: the open list is driven directly
NoSpace == [w |-> <<>>, goals |-> {}, hOf |-> <<>>, keyOf |-> <<>>]

InitOL ==
    /\ open_list = new
    /\ last = [op |-> "new", before |-> new, value |-> None, ret |-> None]
    /\ run = <<>>
    /\ runStart = {}
    /\ live = {}
    /\ everMin = EmptyMap
    /\ sinceMin = EmptyMap
    /\ space = NoSpace
    /\ u_pc = "done" /\ u_open_list = new /\ u_closed_list = {}
    /\ u_result = None /\ u_trace = <<>> /\ u_discarded = {}
    /\ t_pc = "done" /\ t_open_list = new /\ t_closed_list = EmptyMap
    /\ t_result = None /\ t_trace = <<>> /\ t_discarded = {}
    /\ t_goal = None

\* insert(value.key(), value), and what it does to the record of live keys
InsertCall(value) ==
    /\ open_list' = insert(open_list, key(value), value)
    /\ live' = live \cup {key(value)}
    /\ sinceMin' = MapInsert(sinceMin, key(value),
                             IF key(value) \in live
                             THEN Least(sinceMin[key(value)], f(value))
                             ELSE f(value))

\* extract_min(), and what it does to the record of live keys
ExtractMinCall(r) ==
    /\ open_list' = r.ol
    /\ live' = IF r.ret = None THEN live ELSE live \ {key(r.ret[1])}
    /\ sinceMin' = IF r.ret = None THEN sinceMin
                                   ELSE MapRemove(sinceMin, key(r.ret[1]))

Insert(value) ==
    /\ InsertCall(value)
    /\ last' = [op |-> "insert", before |-> open_list,
                value |-> Some(value), ret |-> None]
    /\ run' = <<>>
    /\ runStart' = HeldKeys(open_list')
    /\ UNCHANGED everMin
    /\ UNCHANGED searchvars

ExtractMin ==
    LET r == extract_min(open_list)
    IN  /\ ExtractMinCall(r)
        /\ last' = [op |-> "extract_min", before |-> open_list,
                    value |-> None, ret |-> r.ret]
        /\ run' = IF r.ret = None THEN run ELSE Append(run, r.ret[1])
        /\ UNCHANGED <<runStart, everMin>>
        /\ UNCHANGED searchvars

Min ==
    /\ last' = [op |-> "min", before |-> open_list,
                value |-> None, ret |-> min(open_list)]
    /\ UNCHANGED <<open_list, run, runStart, live, everMin, sinceMin>>
    /\ UNCHANGED searchvars

IsEmpty ==
    /\ last' = [op |-> "is_empty", before |-> open_list,
                value |-> None, ret |-> Some(is_empty(open_list))]
    /\ UNCHANGED <<open_list, run, runStart, live, everMin, sinceMin>>
    /\ UNCHANGED searchvars

NextOL ==
    \/ \E value \in TestState : Insert(value)
    \/ ExtractMin
    \/ Min
    \/ IsEmpty

Spec == InitOL /\ [][NextOL]_vars

(***************************************************************************)
(* The open list with the record of the smallest f() ever inserted under   *)
(* each key kept beside it.                                                *)
(***************************************************************************)
InsertEver(value) ==
    /\ InsertCall(value)
    /\ everMin' = MapInsert(everMin, key(value),
                            IF key(value) \in DOMAIN everMin
                            THEN Least(everMin[key(value)], f(value))
                            ELSE f(value))
    /\ UNCHANGED <<last, run, runStart>>
    /\ UNCHANGED searchvars

ExtractMinEver ==
    /\ ExtractMinCall(extract_min(open_list))
    /\ UNCHANGED <<last, run, runStart, everMin>>
    /\ UNCHANGED searchvars

NextEver ==
    \/ \E value \in TestState : InsertEver(value)
    \/ ExtractMinEver

SpecEver == InitOL /\ [][NextEver]_vars

(***************************************************************************)
(* The caller's search space.  w[a][b] = 0 when node a has no edge to b,   *)
(* and c + 1 when it has one of cost c; successors are generated in the    *)
(* order of their nodes.  keyOf may give two nodes the same key.  A goal   *)
(* is returned when extracted and never asked for successors, so goal      *)
(* nodes are given none.  Labels of the traced adapter are the pairs       *)
(* <<from, to>> of the edge taken.                                         *)
(***************************************************************************)
Space ==
    {sp \in [w : [Nodes -> [Nodes -> 0..(MaxCost + 1)]],
             goals : SUBSET Nodes,
             hOf : [Nodes -> 0..MaxH],
             keyOf : [Nodes -> Nodes]] :
        /\ \A a \in Nodes : sp.w[a][a] = 0
        /\ \A a \in sp.goals : \A b \in Nodes : sp.w[a][b] = 0
        /\ \A n \in Nodes :
              \/ sp.keyOf[n] = n
              \/ \E m \in 1..(n - 1) : sp.keyOf[m] = m /\ sp.keyOf[n] = m}

initial_state == [node |-> 1, g |-> 0]

Targets(node) == SelectSeq([b \in Nodes |-> b], LAMBDA b : space.w[node][b] > 0)

generate_successors(state) ==
    LET ts == Targets(state.node)
    IN  [i \in 1..Len(ts) |->
            [node |-> ts[i], g |-> state.g + space.w[state.node][ts[i]] - 1]]

generate_traced_successors(state) ==
    LET ts == Targets(state.node)
    IN  [i \in 1..Len(ts) |->
            <<[node |-> ts[i], g |-> state.g + space.w[state.node][ts[i]] - 1],
              <<state.node, ts[i]>> >>]

\* TracedStateWrapper::new and TracedStateWrapper::generate_states
TracedStateWrapper_new(state) ==
    [state |-> state, prev_key |-> None, change |-> None]

\* generate_states that records the key of the child as its predecessor key
generate_states_own_key(wrapper) ==
    LET pairs == generate_traced_successors(wrapper.state)
    IN  [i \in 1..Len(pairs) |->
            [state |-> pairs[i][1],
             prev_key |-> Some(key(pairs[i][1])),
             change |-> Some(pairs[i][2])]]

generate_states(wrapper) ==
    LET pairs == generate_traced_successors(wrapper.state)
    IN  [i \in 1..Len(pairs) |->
            [state |-> pairs[i][1],
             prev_key |-> Some(key(wrapper)),
             change |-> Some(pairs[i][2])]]

(***************************************************************************)
(* untraced_astar.  One action per way a pass of the while loop can go.    *)
(***************************************************************************)
\* the for loop that never skips a successor
RECURSIVE untraced_offer_all(_, _, _)
untraced_offer_all(ol, closed, successors) ==
    IF successors = <<>>
    THEN ol
    ELSE untraced_offer_all(insert(ol, key(Head(successors)), Head(successors)),
                            closed, Tail(successors))

\* the for loop that leaves at the first closed successor (break for continue)
RECURSIVE untraced_offer_break(_, _, _)
untraced_offer_break(ol, closed, successors) ==
    IF successors = <<>> \/ key(Head(successors)) \in closed
    THEN ol
    ELSE untraced_offer_break(insert(ol, key(Head(successors)), Head(successors)),
                              closed, Tail(successors))

\* the for loop over successors: skip the closed ones, insert the others
RECURSIVE untraced_offer(_, _, _)
untraced_offer(ol, closed, successors) ==
    IF successors = <<>>
    THEN ol
    ELSE LET successor == Head(successors)
             successor_key == key(successor)
         IN  untraced_offer(IF successor_key \in closed
                            THEN ol
                            ELSE insert(ol, successor_key, successor),
                            closed, Tail(successors))

SkippedKeys(closed, successors) ==
    {key(successors[i]) : i \in 1..Len(successors)} \cap closed

UntracedStart ==
    /\ u_pc = "start"
    /\ u_open_list' = insert(u_open_list, key(initial_state), initial_state)
    /\ u_pc' = "loop"
    /\ UNCHANGED <<u_closed_list, u_result, u_trace, u_discarded>>
    /\ UNCHANGED <<olvars, space, tvars>>

UntracedExhausted ==
    /\ u_pc = "loop"
    /\ extract_min(u_open_list).ret = None
    /\ u_open_list' = extract_min(u_open_list).ol
    /\ u_result' = None
    /\ u_pc' = "done"
    /\ UNCHANGED <<u_closed_list, u_trace, u_discarded>>
    /\ UNCHANGED <<olvars, space, tvars>>

\* the goal branch taken after the extracted state was put in the closed set
UntracedGoal_closing_first ==
    /\ u_pc = "loop"
    /\ extract_min(u_open_list).ret # None
    /\ LET current_state == extract_min(u_open_list).ret[1]
           closed == u_closed_list \cup {key(current_state)}
       IN  /\ is_goal(current_state)
           /\ u_closed_list' = closed
           /\ u_result' = Some([iterations |-> Cardinality(closed),
                                final_state |-> current_state])
           /\ u_trace' = Append(u_trace, current_state)
    /\ u_open_list' = extract_min(u_open_list).ol
    /\ u_pc' = "done"
    /\ UNCHANGED u_discarded
    /\ UNCHANGED <<olvars, space, tvars>>

UntracedGoal ==
    /\ u_pc = "loop"
    /\ extract_min(u_open_list).ret # None
    /\ LET current_state == extract_min(u_open_list).ret[1]
       IN  /\ is_goal(current_state)
           /\ u_result' = Some([iterations |-> Cardinality(u_closed_list),
                                final_state |-> current_state])
           /\ u_trace' = Append(u_trace, current_state)
    /\ u_open_list' = extract_min(u_open_list).ol
    /\ u_pc' = "done"
    /\ UNCHANGED <<u_closed_list, u_discarded>>
    /\ UNCHANGED <<olvars, space, tvars>>

\* the loop body that returns a goal as soon as it is generated
UntracedExpand_goal_at_generation ==
    /\ u_pc = "loop"
    /\ extract_min(u_open_list).ret # None
    /\ LET current_state == extract_min(u_open_list).ret[1]
           closed == u_closed_list \cup {key(current_state)}
           successors == generate_successors(current_state)
           goals == SelectSeq(successors, is_goal)
       IN  /\ ~is_goal(current_state)
           /\ u_closed_list' = closed
           /\ u_open_list' = untraced_offer(extract_min(u_open_list).ol,
                                            closed, successors)
           /\ u_trace' = Append(u_trace, current_state)
           /\ u_discarded' = u_discarded \cup SkippedKeys(closed, successors)
           /\ u_pc' = IF goals # <<>> THEN "done" ELSE u_pc
           /\ u_result' = IF goals # <<>>
                          THEN Some([iterations |-> Cardinality(closed),
                                     final_state |-> Head(goals)])
                          ELSE u_result
    /\ UNCHANGED <<olvars, space, tvars>>

UntracedExpand ==
    /\ u_pc = "loop"
    /\ extract_min(u_open_list).ret # None
    /\ LET current_state == extract_min(u_open_list).ret[1]
           closed == u_closed_list \cup {key(current_state)}
           successors == generate_successors(current_state)
       IN  /\ ~is_goal(current_state)
           /\ u_closed_list' = closed
           /\ u_open_list' = untraced_offer(extract_min(u_open_list).ol,
                                            closed, successors)
           /\ u_trace' = Append(u_trace, current_state)
           /\ u_discarded' = u_discarded \cup SkippedKeys(closed, successors)
    /\ UNCHANGED <<u_pc, u_result>>
    /\ UNCHANGED <<olvars, space, tvars>>

(***************************************************************************)
(* traced_astar.                                                           *)
(***************************************************************************)
RECURSIVE Reverse(_)
Reverse(seq) ==
    IF seq = <<>> THEN <<>> ELSE Append(Reverse(Tail(seq)), Head(seq))

Push(path, change) == IF change # None THEN Append(path, change[1]) ELSE path

\* the inner while loop of the backtracking: [path, closed, exit], exit being
\* "start" when the loop breaks on a wrapper without predecessor and
\* "absent" when curr_key is not in the closed map
RECURSIVE backtrack(_, _, _)
backtrack(closed, curr_key, path) ==
    IF curr_key \in DOMAIN closed
    THEN LET prev_state == closed[curr_key]
             removed == MapRemove(closed, curr_key)
             pushed == Push(path, prev_state.change)
         IN  IF prev_state.prev_key # None
             THEN backtrack(removed, prev_state.prev_key[1], pushed)
             ELSE [path |-> pushed, closed |-> removed, exit |-> "start"]
    ELSE [path |-> path, closed |-> closed, exit |-> "absent"]

\* the path that is returned in the order it was collected, goal first
build_path_unreversed(closed, wrapper) ==
    LET path == Push(<<>>, wrapper.change)
    IN  IF wrapper.prev_key # None
        THEN backtrack(closed, wrapper.prev_key[1], path)
        ELSE [path |-> path, closed |-> closed, exit |-> "start"]

\* the path without the change that led to the goal itself
build_path_without_goal_change(closed, wrapper) ==
    LET walked == IF wrapper.prev_key # None
                  THEN backtrack(closed, wrapper.prev_key[1], <<>>)
                  ELSE [path |-> <<>>, closed |-> closed, exit |-> "start"]
    IN  [walked EXCEPT !.path = Reverse(walked.path)]

\* lines 21-44: the path from the goal wrapper back to the start, reversed
build_path(closed, wrapper) ==
    LET path == Push(<<>>, wrapper.change)
        walked == IF wrapper.prev_key # None
                  THEN backtrack(closed, wrapper.prev_key[1], path)
                  ELSE [path |-> path, closed |-> closed, exit |-> "start"]
    IN  [walked EXCEPT !.path = Reverse(walked.path)]

\* the for loop that never skips a successor
RECURSIVE traced_offer_all(_, _, _)
traced_offer_all(ol, closed, successors) ==
    IF successors = <<>>
    THEN ol
    ELSE traced_offer_all(insert(ol, key(Head(successors)), Head(successors)),
                          closed, Tail(successors))

\* the for loop that lets a successor of lower f() back in under a closed key
RECURSIVE traced_offer_reopening(_, _, _)
traced_offer_reopening(ol, closed, successors) ==
    IF successors = <<>>
    THEN ol
    ELSE LET successor == Head(successors)
             successor_key == key(successor)
         IN  traced_offer_reopening(
                 IF /\ successor_key \in DOMAIN closed
                    /\ f(successor) >= f(closed[successor_key])
                 THEN ol
                 ELSE insert(ol, successor_key, successor),
                 closed, Tail(successors))

\* the for loop over successors; closed is the closed map
RECURSIVE traced_offer(_, _, _)
traced_offer(ol, closed, successors) ==
    IF successors = <<>>
    THEN ol
    ELSE LET successor == Head(successors)
             successor_key == key(successor)
         IN  traced_offer(IF successor_key \in DOMAIN closed
                          THEN ol
                          ELSE insert(ol, successor_key, successor),
                          closed, Tail(successors))

TracedStart ==
    /\ u_pc = "done"
    /\ t_pc = "start"
    /\ t_open_list' = insert(t_open_list, key(initial_state),
                             TracedStateWrapper_new(initial_state))
    /\ t_pc' = "loop"
    /\ UNCHANGED <<t_closed_list, t_result, t_trace, t_discarded, t_goal>>
    /\ UNCHANGED <<olvars, space, uvars>>

TracedExhausted ==
    /\ t_pc = "loop"
    /\ extract_min(t_open_list).ret = None
    /\ t_open_list' = extract_min(t_open_list).ol
    /\ t_result' = None
    /\ t_pc' = "done"
    /\ UNCHANGED <<t_closed_list, t_trace, t_discarded, t_goal>>
    /\ UNCHANGED <<olvars, space, uvars>>

\* the goal branch that counts the closed map after the path was rebuilt
TracedGoal_counting_after_backtracking ==
    /\ t_pc = "loop"
    /\ extract_min(t_open_list).ret # None
    /\ LET current_state == extract_min(t_open_list).ret[1]
           built == build_path(t_closed_list, current_state)
       IN  /\ is_goal(current_state)
           /\ t_result' = Some([path |-> built.path,
                                iterations |-> Cardinality(DOMAIN built.closed),
                                final_state |-> current_state.state])
           /\ t_closed_list' = built.closed
           /\ t_goal' = Some([closed |-> t_closed_list, exit |-> built.exit])
           /\ t_trace' = Append(t_trace, current_state)
    /\ t_open_list' = extract_min(t_open_list).ol
    /\ t_pc' = "done"
    /\ UNCHANGED t_discarded
    /\ UNCHANGED <<olvars, space, uvars>>

TracedGoal ==
    /\ t_pc = "loop"
    /\ extract_min(t_open_list).ret # None
    /\ LET current_state == extract_min(t_open_list).ret[1]
           iterations == Cardinality(DOMAIN t_closed_list)
           built == build_path(t_closed_list, current_state)
       IN  /\ is_goal(current_state)
           /\ t_result' = Some([path |-> built.path,
                                iterations |-> iterations,
                                final_state |-> current_state.state])
           /\ t_closed_list' = built.closed
           /\ t_goal' = Some([closed |-> t_closed_list, exit |-> built.exit])
           /\ t_trace' = Append(t_trace, current_state)
    /\ t_open_list' = extract_min(t_open_list).ol
    /\ t_pc' = "done"
    /\ UNCHANGED t_discarded
    /\ UNCHANGED <<olvars, space, uvars>>

TracedExpand ==
    /\ t_pc = "loop"
    /\ extract_min(t_open_list).ret # None
    /\ LET current_state == extract_min(t_open_list).ret[1]
           successors == generate_states(current_state)
           closed == MapInsert(t_closed_list, key(current_state), current_state)
       IN  /\ ~is_goal(current_state)
           /\ t_closed_list' = closed
           /\ t_open_list' = traced_offer(extract_min(t_open_list).ol,
                                          closed, successors)
           /\ t_trace' = Append(t_trace, current_state)
           /\ t_discarded' = t_discarded
                                \cup SkippedKeys(DOMAIN closed, successors)
    /\ UNCHANGED <<t_pc, t_result, t_goal>>
    /\ UNCHANGED <<olvars, space, uvars>>

(***************************************************************************)
(* Both drivers called on the start state of any search space.  Each runs  *)
(* to completion on its caller's thread, so the caller has the result of   *)
(* untraced_astar before traced_astar begins.                              *)
(***************************************************************************)
InitSearch ==
    /\ space \in Space
    /\ u_pc = "start" /\ u_open_list = new /\ u_closed_list = {}
    /\ u_result = None /\ u_trace = <<>> /\ u_discarded = {}
    /\ t_pc = "start" /\ t_open_list = new /\ t_closed_list = EmptyMap
    /\ t_result = None /\ t_trace = <<>> /\ t_discarded = {}
    /\ t_goal = None
    /\ open_list = new
    /\ last = [op |-> "new", before |-> new, value |-> None, ret |-> None]
    /\ run = <<>> /\ runStart = {} /\ live = {}
    /\ everMin = EmptyMap /\ sinceMin = EmptyMap

NextSearch ==
    \/ UntracedStart
    \/ UntracedExhausted
    \/ UntracedGoal
    \/ UntracedExpand
    \/ TracedStart
    \/ TracedExhausted
    \/ TracedGoal
    \/ TracedExpand

SpecSearch == InitSearch /\ [][NextSearch]_vars

\* the steps of each driver
UntracedNext == UntracedStart \/ UntracedExhausted \/ UntracedGoal \/ UntracedExpand
TracedNext == TracedStart \/ TracedExhausted \/ TracedGoal \/ TracedExpand

(***************************************************************************)
(* untraced_astar called on states whose key() is not stable: every call   *)
(* of key() may return any key, so the key a state is stored under, the    *)
(* key pop() removes from the index map and the key that is closed may     *)
(* all differ.  The loop is followed for MaxPasses extractions.            *)
(***************************************************************************)
MaxPasses == 2

\* pop, value.key() having returned `returned`
pop_removing(ol, returned) ==
    IF ol.heap = <<>>
    THEN [ol |-> ol, ret |-> None]
    ELSE LET last_index == Len(ol.heap) - 1
             value == At(ol.heap, last_index)[2]
         IN  [ol  |-> [heap |-> SubSeq(ol.heap, 1, last_index),
                       map  |-> MapRemove(ol.map, returned)],
              ret |-> Some(value)]

\* extract_min, value.key() having returned `returned` in pop
extract_min_removing(ol, returned) ==
    IF ol.heap = <<>>
    THEN [ol |-> ol, ret |-> None]
    ELSE LET last_index == Len(ol.heap) - 1
             popped == pop_removing(swap(ol, 0, last_index), returned)
         IN  [ol  |-> IF popped.ol.heap # <<>>
                      THEN buble_down(popped.ol, 0)
                      ELSE popped.ol,
              ret |-> popped.ret]

\* insert line 34: self.heap[index] panics when the index the map holds for
\* the key is not below the length of the heap
insert_out_of_bounds(ol, k) ==
    k \in DOMAIN ol.map /\ ol.map[k] >= Len(ol.heap)

\* the for loop over successors, keys[i] being what key() returned for the
\* i-th successor: [ol, panicked]
RECURSIVE unstable_offer(_, _, _, _)
unstable_offer(ol, closed, successors, keys) ==
    IF successors = <<>>
    THEN [ol |-> ol, panicked |-> FALSE]
    ELSE LET successor == Head(successors)
             successor_key == Head(keys)
         IN  IF successor_key \in closed
             THEN unstable_offer(ol, closed, Tail(successors), Tail(keys))
             ELSE IF insert_out_of_bounds(ol, successor_key)
                  THEN [ol |-> ol, panicked |-> TRUE]
                  ELSE unstable_offer(insert(ol, successor_key, successor),
                                      closed, Tail(successors), Tail(keys))

UnstableStart(k) ==
    /\ u_pc = "start"
    /\ u_open_list' = insert(u_open_list, k, initial_state)
    /\ u_pc' = "loop"
    /\ UNCHANGED <<u_closed_list, u_result, u_trace, u_discarded>>
    /\ UNCHANGED <<olvars, space, tvars>>

UnstableExhausted ==
    /\ u_pc = "loop"
    /\ u_open_list.heap = <<>>
    /\ u_result' = None
    /\ u_pc' = "done"
    /\ UNCHANGED <<u_open_list, u_closed_list, u_trace, u_discarded>>
    /\ UNCHANGED <<olvars, space, tvars>>

UnstableGoal(returned) ==
    /\ u_pc = "loop"
    /\ u_open_list.heap # <<>>
    /\ LET extracted == extract_min_removing(u_open_list, returned)
           current_state == extracted.ret[1]
       IN  /\ is_goal(current_state)
           /\ u_result' = Some([iterations |-> Cardinality(u_closed_list),
                                final_state |-> current_state])
           /\ u_trace' = Append(u_trace, current_state)
           /\ u_open_list' = extracted.ol
    /\ u_pc' = "done"
    /\ UNCHANGED <<u_closed_list, u_discarded>>
    /\ UNCHANGED <<olvars, space, tvars>>

UnstableExpand(returned, closed_key, keys) ==
    /\ u_pc = "loop"
    /\ Len(u_trace) < MaxPasses
    /\ u_open_list.heap # <<>>
    /\ LET extracted == extract_min_removing(u_open_list, returned)
           current_state == extracted.ret[1]
           closed == u_closed_list \cup {closed_key}
           successors == generate_successors(current_state)
           offered == unstable_offer(extracted.ol, closed, successors, keys)
       IN  /\ ~is_goal(current_state)
           /\ Len(keys) = Len(successors)
           /\ u_closed_list' = closed
           /\ u_open_list' = offered.ol
           /\ u_pc' = IF offered.panicked THEN "panic" ELSE "loop"
           /\ u_trace' = Append(u_trace, current_state)
           /\ u_discarded' = u_discarded
                  \cup ({keys[i] : i \in 1..Len(keys)} \cap closed)
    /\ UNCHANGED u_result
    /\ UNCHANGED <<olvars, space, tvars>>

\* any search space with edges of cost 1 and a zero heuristic; traced_astar
\* is not called
InitUnstable ==
    /\ space \in {sp \in Space : /\ \A a, b \in Nodes : sp.w[a][b] \in {0, 2}
                                 /\ \A n \in Nodes : sp.hOf[n] = 0
                                 /\ \A n \in Nodes : sp.keyOf[n] = n}
    /\ u_pc = "start" /\ u_open_list = new /\ u_closed_list = {}
    /\ u_result = None /\ u_trace = <<>> /\ u_discarded = {}
    /\ t_pc = "done" /\ t_open_list = new /\ t_closed_list = EmptyMap
    /\ t_result = None /\ t_trace = <<>> /\ t_discarded = {}
    /\ t_goal = None
    /\ open_list = new
    /\ last = [op |-> "new", before |-> new, value |-> None, ret |-> None]
    /\ run = <<>> /\ runStart = {} /\ live = {}
    /\ everMin = EmptyMap /\ sinceMin = EmptyMap

NextUnstable ==
    \/ \E k \in Nodes : UnstableStart(k)
    \/ UnstableExhausted
    \/ \E returned \in Nodes : UnstableGoal(returned)
    \/ \E returned, closed_key \in Nodes :
          \E n \in 0..(NumNodes - 1) :
             \E keys \in [1..n -> Nodes] :
                UnstableExpand(returned, closed_key, keys)

SpecUnstable == InitUnstable /\ [][NextUnstable]_vars

(***************************************************************************)
(* Properties of the open list.                                            *)
(***************************************************************************)
F(ol, i) == f(At(ol.heap, i)[2])

\* C1: heap invariant.  After any sequence of insert and extract_min calls,
\* for every heap position i > 0 the entry at the parent position (i-1)/2 has
\* f() <= the f() of the entry at i.
C1_HeapInvariant ==
    \A i \in 1..(Len(open_list.heap) - 1) :
        F(open_list, (i - 1) \div 2) <= F(open_list, i)

\* an extract_min has sifted the former last entry down past a smaller right
\* child, and a left child is held too
C1_Witness ==
    /\ last.op = "extract_min"
    /\ Len(open_list.heap) = 3
    /\ At(open_list.heap, 0) = At(last.before.heap, 2)
    /\ At(open_list.heap, 2) = At(last.before.heap, 3)
    /\ F(open_list, 0) < F(open_list, 2)

\* C2: ordering.  Once insertion stops, successive extract_min calls return
\* states with non-decreasing f(), each a distinct key held when insertion
\* stopped, and None is returned only after every such key was returned once.
C2_Ordering ==
    /\ \A i \in 1..(Len(run) - 1) : f(run[i]) <= f(run[i + 1])
    /\ \A i, j \in 1..Len(run) : i # j => key(run[i]) # key(run[j])
    /\ {key(run[i]) : i \in 1..Len(run)} \subseteq runStart
    /\ (last.op = "extract_min" /\ last.ret = None)
          => {key(run[i]) : i \in 1..Len(run)} = runStart

\* a list of four keys was drained to None, the f() values rising on the way
C2_Witness ==
    /\ last.op = "extract_min"
    /\ last.ret = None
    /\ Len(run) = NumKeys
    /\ f(run[1]) < f(run[Len(run)])

\* C3: decrease-key.  An insert under a held key replaces the entry if and
\* only if the new state's f() is strictly smaller; otherwise the whole list
\* is left unchanged.  The number of entries does not change either way.
C3_DecreaseKey ==
    (last.op = "insert" /\ key(last.value[1]) \in HeldKeys(last.before))
    => LET value == last.value[1]
           held == Entry(last.before, key(value))[2]
       IN  /\ f(value) < f(held)
                => Entry(open_list, key(value)) = <<key(value), value>>
           /\ f(value) >= f(held) => open_list = last.before
           /\ Len(open_list.heap) = Len(last.before.heap)

\* an insert offered a different state of equal f() under a held key
C3_Witness ==
    /\ last.op = "insert"
    /\ key(last.value[1]) \in HeldKeys(last.before)
    /\ last.value[1] # Entry(last.before, key(last.value[1]))[2]
    /\ f(last.value[1]) = f(Entry(last.before, key(last.value[1]))[2])

\* C4: at most one entry per key.  No two heap entries have the same key, and
\* the number of entries is the number of distinct keys inserted and not yet
\* extracted.
C4_OneEntryPerKey ==
    /\ \A i, j \in DOMAIN open_list.heap :
          i # j => open_list.heap[i][1] # open_list.heap[j][1]
    /\ Len(open_list.heap) = Cardinality(live)

\* a key already held among others was inserted again with a lower f()
C4_Witness ==
    /\ last.op = "insert"
    /\ key(last.value[1]) \in HeldKeys(last.before)
    /\ f(last.value[1]) < f(Entry(last.before, key(last.value[1]))[2])
    /\ Len(open_list.heap) >= 2

\* C5 as stated: the entry held for a key has the smallest f() ever inserted
\* for that key, inserts made before an earlier extract_min of it included.
C5_SmallestEver ==
    \A k \in HeldKeys(open_list) : f(Entry(open_list, k)[2]) = everMin[k]

\* C5 as amended: the entry held for a key has the smallest f() inserted for
\* that key since the key was last absent from the list.
C5_SmallestSinceAbsent ==
    /\ HeldKeys(open_list) = DOMAIN sinceMin
    /\ \A k \in HeldKeys(open_list) : f(Entry(open_list, k)[2]) = sinceMin[k]

\* a key extracted earlier is held again, with an f() above one it had before
C5_Witness ==
    \E k \in HeldKeys(open_list) :
        /\ everMin[k] < sinceMin[k]
        /\ f(Entry(open_list, k)[2]) = sinceMin[k]

(***************************************************************************)
(* Properties of the search drivers.                                       *)
(***************************************************************************)
Done == u_pc = "done" /\ t_pc = "done"

\* no state extracted after a non-goal state shares that state's key
NoReExpansion(trace) ==
    \A i, j \in 1..Len(trace) :
        (i < j /\ ~is_goal(trace[i])) => key(trace[j]) # key(trace[i])

\* C6: no re-expansion.  In both drivers a key once moved to the closed set is
\* never extracted and expanded again, however often a successor with that
\* key is offered afterwards.
C6_NoReExpansion ==
    /\ NoReExpansion(u_trace)
    /\ NoReExpansion(t_trace)
    /\ u_closed_list = {key(u_trace[i]) : i \in {j \in 1..Len(u_trace) :
                                                    ~is_goal(u_trace[j])}}
    /\ Cardinality(u_closed_list)
          = Cardinality({j \in 1..Len(u_trace) : ~is_goal(u_trace[j])})
    /\ t_pc = "loop"
          => /\ DOMAIN t_closed_list = {key(t_trace[i]) : i \in 1..Len(t_trace)}
             /\ Cardinality(DOMAIN t_closed_list) = Len(t_trace)

\* both drivers finished after expanding several keys and skipping successors
\* whose key was closed
C6_Witness ==
    /\ Done
    /\ u_discarded # {} /\ t_discarded # {}
    /\ Cardinality(u_closed_list) = NumNodes
    /\ Len(t_trace) >= NumNodes

DistinctKeys == {space.keyOf[n] : n \in Nodes}

\* the calls of extract_min a driver has made from its while loop
Loops(pc, result, trace) ==
    Len(trace) + (IF pc = "done" /\ result = None THEN 1 ELSE 0)

\* what C7 says of every state: the bound on the calls, and that a driver
\* still looping has closed one key per pass and has no result yet
C7_Bound ==
    /\ Loops(u_pc, u_result, u_trace) <= Cardinality(DistinctKeys) + 1
    /\ Loops(t_pc, t_result, t_trace) <= Cardinality(DistinctKeys) + 1
    /\ u_pc \in {"start", "loop", "done"} /\ t_pc \in {"start", "loop", "done"}
    /\ u_pc = "loop" => /\ u_result = None
                        /\ Len(u_trace) = Cardinality(u_closed_list)
                        /\ u_closed_list \subseteq DistinctKeys
    /\ t_pc = "loop" => /\ t_result = None
                        /\ Len(t_trace) = Cardinality(DOMAIN t_closed_list)
                        /\ DOMAIN t_closed_list \subseteq DistinctKeys
    /\ u_result # None => u_pc = "done" /\ is_goal(u_result[1].final_state)
    /\ t_result # None => t_pc = "done" /\ is_goal(t_result[1].final_state)

\* what C7 says of every step: a pass of a driver's loop is one more call of
\* extract_min, and a driver that has returned does nothing more
C7_Progress ==
    /\ (u_pc = "loop" /\ uvars' # uvars)
          => Loops(u_pc', u_result', u_trace') = Loops(u_pc, u_result, u_trace) + 1
    /\ (t_pc = "loop" /\ tvars' # tvars)
          => Loops(t_pc', t_result', t_trace') = Loops(t_pc, t_result, t_trace) + 1
    /\ u_pc = "done" => uvars' = uvars
    /\ t_pc = "done" => tvars' = tvars

\* C7: termination.  On a space of finitely many keys, cycles allowed, both
\* drivers terminate, with a goal or with None on an exhausted frontier: every
\* pass of the loop is one more call of extract_min, and there are never more
\* of these than the number of distinct keys plus one.
C7_Termination == []C7_Bound /\ [][C7_Progress]_vars

\* both drivers exhausted a cyclic space after expanding every key
C7_Witness ==
    /\ Done
    /\ u_result = None /\ t_result = None
    /\ Cardinality(DistinctKeys) = NumNodes
    /\ Loops(u_pc, u_result, u_trace) = NumNodes + 1
    /\ Loops(t_pc, t_result, t_trace) = NumNodes + 1
    /\ u_discarded # {} /\ t_discarded # {}

\* the state reached from state by the transitions of path, if each of them
\* is one that the state it is applied to offers
RECURSIVE Replay(_, _)
Replay(state, path) ==
    IF path = <<>>
    THEN Some(state)
    ELSE LET pairs == generate_traced_successors(state)
             hits == {i \in 1..Len(pairs) : pairs[i][2] = Head(path)}
         IN  IF hits = {}
             THEN None
             ELSE Replay(pairs[CHOOSE i \in hits : TRUE][1], Tail(path))

\* the number of predecessor links from wrapper back to the start
RECURSIVE ChainLen(_, _, _)
ChainLen(closed, wrapper, fuel) ==
    IF wrapper.prev_key = None \/ fuel = 0
    THEN 0
    ELSE 1 + ChainLen(closed, closed[wrapper.prev_key[1]], fuel - 1)

\* C8: path validity.  Whenever traced_astar returns a result, applying the
\* transitions of its path in order to the start state gives its final state,
\* and the path is as long as the predecessor chain from the goal to the start.
C8_PathValid ==
    t_result # None
    => /\ Replay(initial_state, t_result[1].path) = Some(t_result[1].final_state)
       /\ Len(t_result[1].path)
             = ChainLen(t_goal[1].closed, t_trace[Len(t_trace)], NumNodes + 1)

\* a two-edge path was returned although the start has an edge to the goal
C8_Witness ==
    /\ t_result # None
    /\ Len(t_result[1].path) = 2
    /\ space.w[1][t_result[1].final_state.node] > 0

Injective == \A n \in Nodes : space.keyOf[n] = n

Edge(a, b) == space.w[a][b] > 0
Cost(a, b) == space.w[a][b] - 1

\* h is 0 on goals and drops by no more than the cost along any edge
Consistent ==
    /\ \A n \in space.goals : space.hOf[n] = 0
    /\ \A a, b \in Nodes : Edge(a, b) => space.hOf[a] <= Cost(a, b) + space.hOf[b]

Infinity == NumNodes * (MaxCost + 1)

\* cheapest cost of a path of at most k edges from node 1, per node
RECURSIVE Dist(_)
Dist(k) ==
    IF k = 0
    THEN [n \in Nodes |-> IF n = 1 THEN 0 ELSE Infinity]
    ELSE LET d == Dist(k - 1)
         IN  [n \in Nodes |->
                 LET via == {d[a] + Cost(a, n) : a \in {x \in Nodes : Edge(x, n)}}
                               \cup {d[n]}
                 IN  CHOOSE c \in via : \A e \in via : c <= e]

MinGoalCost ==
    LET costs == {Dist(NumNodes)[n] : n \in space.goals}
    IN  CHOOSE c \in costs : \A e \in costs : c <= e

\* C9: minimal cost.  On a graph (one key per node) with f = g + h and a
\* consistent heuristic, a driver that returns a goal returns one whose g() is
\* the least cost of any path from the start to a goal.
C9_MinimalCost ==
    (Injective /\ Consistent)
    => /\ u_result # None => g(u_result[1].final_state) = MinGoalCost
       /\ t_result # None => g(t_result[1].final_state) = MinGoalCost

\* a cheaper dead end was expanded before the goal, which costs more, was
\* returned by both drivers
C9_Witness ==
    /\ Injective /\ Consistent
    /\ u_result # None /\ t_result # None
    /\ g(u_result[1].final_state) > 0
    /\ g(t_result[1].final_state) = g(u_result[1].final_state)
    /\ \E i \in 1..Len(u_trace) :
          /\ u_trace[i].node # 1
          /\ ~is_goal(u_trace[i])
          /\ generate_successors(u_trace[i]) = <<>>
          /\ f(u_trace[i]) < g(u_result[1].final_state)

RECURSIVE Reach(_)
Reach(set) ==
    LET more == set \cup {b \in Nodes : \E a \in set : Edge(a, b)}
    IN  IF more = set THEN set ELSE Reach(more)

GoalReachable == Reach({1}) \cap space.goals # {}

Outcome(result) == result = None <=> ~GoalReachable

\* C10 as stated: with stable keys a driver returns None if and only if no
\* goal state is reachable from the start through successor generation.
C10_NoneIffUnreachable ==
    /\ u_pc = "done" => Outcome(u_result)
    /\ t_pc = "done" => Outcome(t_result)

\* states of one key agree on is_goal() and on the keys of their successors
KeyCongruent ==
    \A a, b \in Nodes :
        space.keyOf[a] = space.keyOf[b]
        => /\ a \in space.goals <=> b \in space.goals
           /\ {space.keyOf[x] : x \in {y \in Nodes : Edge(a, y)}}
                 = {space.keyOf[x] : x \in {y \in Nodes : Edge(b, y)}}

\* C10 as amended: with stable keys under which states of equal key agree on
\* is_goal() and on the keys of their successors, a driver returns None if and
\* only if no goal state is reachable from the start; whatever else it returns
\* is a goal state.
C10_NoneIffUnreachableUnderCongruence ==
    /\ KeyCongruent => C10_NoneIffUnreachable
    /\ u_result # None => is_goal(u_result[1].final_state)
    /\ t_result # None => is_goal(t_result[1].final_state)

\* both drivers exhausted a space in which two reachable nodes share a key
C10_Witness ==
    /\ Done /\ KeyCongruent
    /\ u_result = None /\ t_result = None
    /\ \E a, b \in Reach({1}) : a # b /\ space.keyOf[a] = space.keyOf[b]
    /\ Len(u_trace) >= 2 /\ Len(t_trace) >= 2


(***************************************************************************)
(* Scenarios of the drivers.                                               *)
(***************************************************************************)
\* the chain start -> A -> goal: node 1 is start, 2 is A, 3 the goal, each
\* edge costs 1, h() is 0 everywhere and every node has a key of its own
Chain ==
    /\ space.w = <<<<0, 2, 0>>, <<0, 0, 2>>, <<0, 0, 0>>>>
    /\ space.goals = {3}
    /\ space.hOf = <<0, 0, 0>>
    /\ space.keyOf = <<1, 2, 3>>

ChainResult(n) ==
    Some([path |-> <<<<1, 2>>, <<2, 3>>>>,
          iterations |-> n,
          final_state |-> [node |-> 3, g |-> 2]])

\* C11 as stated: on the chain start -> A -> goal with unit edge costs and a
\* zero heuristic, traced_astar returns the path [start->A, A->goal] and
\* iterations == 1.
C11_ChainOneIteration ==
    (Chain /\ t_pc = "done") => t_result = ChainResult(1)

\* C11 as amended: on that chain traced_astar returns the path
\* [start->A, A->goal], the goal reached at cost 2, and iterations == 2: start
\* and A are both expanded before the goal is extracted.
C11_ChainTwoIterations ==
    (Chain /\ t_pc = "done")
    => /\ t_result = ChainResult(2)
       /\ [i \in 1..Len(t_trace) |-> t_trace[i].state.node] = <<1, 2, 3>>

\* traced_astar has returned on the chain, two wrappers closed by then
C11_Witness ==
    /\ Chain /\ t_pc = "done"
    /\ t_result # None
    /\ DOMAIN t_goal[1].closed = {1, 2}

\* is_goal() is true on the initial state
StartIsGoal == is_goal(initial_state)

\* C12: when is_goal() is true on the initial state, both drivers return that
\* state with iterations == 0 and traced_astar returns an empty path; nothing
\* is expanded: the initial state is the only state extracted, nothing is
\* closed and no successor reaches the open list.
C12_GoalAtStart ==
    StartIsGoal
    => /\ u_pc = "done"
          => /\ u_result = Some([iterations |-> 0, final_state |-> initial_state])
             /\ u_trace = <<initial_state>>
             /\ u_closed_list = {} /\ u_open_list = new
       /\ t_pc = "done"
          => /\ t_result = Some([path |-> <<>>, iterations |-> 0,
                                 final_state |-> initial_state])
             /\ t_trace = <<TracedStateWrapper_new(initial_state)>>
             /\ t_closed_list = EmptyMap /\ t_open_list = new
             /\ t_goal = Some([closed |-> EmptyMap, exit |-> "start"])

\* both drivers have returned from a start state that is a goal
C12_Witness ==
    /\ StartIsGoal /\ Done
    /\ u_result # None /\ u_result[1].iterations = 0
    /\ t_result # None /\ t_result[1].path = <<>>

\* C13: contract violations never crash the engine.  Even when key() is not
\* stable, so that the key stored at insert differs from value.key() at
\* removal, no insert or extract_min performed by the driver indexes the heap
\* outside its bounds or otherwise aborts.
C13_NeverCrashes == u_pc # "panic"

(***************************************************************************)
(* Further properties of the open list.                                    *)
(***************************************************************************)
Entries(ol) == {ol.heap[i] : i \in DOMAIN ol.heap}

\* C14: absence is not an error.  extract_min() and min() on an empty open
\* list return None and leave the list, heap and index map, empty and
\* unchanged; a freshly created list is empty.
C14_AbsenceIsNotAnError ==
    /\ last.op = "new"
          => /\ open_list.heap = <<>> /\ DOMAIN open_list.map = {}
             /\ is_empty(open_list)
    /\ (last.op \in {"extract_min", "min"} /\ last.before.heap = <<>>)
          => /\ last.ret = None
             /\ open_list = last.before
             /\ open_list.heap = <<>> /\ DOMAIN open_list.map = {}

\* extract_min was called on a list that earlier calls had drained
C14_Witness ==
    /\ last.op = "extract_min"
    /\ last.before.heap = <<>>
    /\ last.ret = None
    /\ Len(run) >= 2

\* C16: extract_min() on a non-empty open list returns an entry whose f() is
\* <= the f() of every entry held before the call, removes exactly that
\* entry's key, and retains every other (key, state) entry unchanged, so the
\* size decreases by exactly one.
C16_ExtractMin ==
    (last.op = "extract_min" /\ last.before.heap # <<>>)
    => /\ last.ret # None
       /\ LET value == last.ret[1]
              entry == <<key(value), value>>
          IN  /\ entry \in Entries(last.before)
              /\ \A e \in Entries(last.before) : f(value) <= f(e[2])
              /\ Entries(open_list) = Entries(last.before) \ {entry}
              /\ HeldKeys(open_list) = HeldKeys(last.before) \ {key(value)}
              /\ DOMAIN open_list.map = (DOMAIN last.before.map) \ {key(value)}
              /\ Len(open_list.heap) = Len(last.before.heap) - 1

\* extract_min took the one smallest entry out of a list of four, and it was
\* not the entry inserted last
C16_Witness ==
    /\ last.op = "extract_min"
    /\ Len(last.before.heap) = NumKeys
    /\ Len(open_list.heap) = NumKeys - 1
    /\ \A e \in Entries(open_list) : f(last.ret[1]) < f(e[2])

\* C17: min() and is_empty() never mutate the open list, min() returns the
\* state with the smallest f() among all held entries, and the state reported
\* by min() is the one the immediately following extract_min() returns.
C17_Observers ==
    /\ last.op \in {"min", "is_empty"} => open_list = last.before
    /\ last.op = "is_empty" => last.ret = Some(open_list.heap = <<>>)
    /\ (last.op = "min" /\ open_list.heap # <<>>)
          => /\ last.ret # None
             /\ \E e \in Entries(open_list) : e[2] = last.ret[1]
             /\ \A e \in Entries(open_list) : f(last.ret[1]) <= f(e[2])
             /\ extract_min(open_list).ret = last.ret
    /\ last.op = "extract_min" => last.ret = min(last.before)

\* min() was called on a list of three entries whose smallest is not the
\* one stored last
C17_Witness ==
    /\ last.op = "min"
    /\ Len(open_list.heap) = 3
    /\ last.ret # None
    /\ f(last.ret[1]) < f(open_list.heap[3][2])

\* C18: the index map and the heap stay in lock-step.  After any sequence of
\* insert and extract_min calls with stable keys the key set of the map is the
\* set of keys stored in the heap, the map's position for each key is the heap
\* index that stores the key, map and heap have the same size, and an
\* extracted key is absent from the map.
C18_LockStep ==
    /\ DOMAIN open_list.map = HeldKeys(open_list)
    /\ \A k \in DOMAIN open_list.map :
          /\ open_list.map[k] \in 0..(Len(open_list.heap) - 1)
          /\ At(open_list.heap, open_list.map[k])[1] = k
    /\ Cardinality(DOMAIN open_list.map) = Len(open_list.heap)
    /\ (last.op = "extract_min" /\ last.ret # None)
          => key(last.ret[1]) \notin DOMAIN open_list.map

\* an extract_min left three keys behind, one of them at a new position
C18_Witness ==
    /\ last.op = "extract_min"
    /\ last.ret # None
    /\ Len(open_list.heap) = 3
    /\ \E k \in DOMAIN open_list.map : open_list.map[k] # last.before.map[k]

(***************************************************************************)
(* Further properties of the drivers.                                      *)
(***************************************************************************)
NonGoals(trace) == {i \in 1..Len(trace) : ~is_goal(trace[i])}
KeysOf(trace, n) == {key(trace[i]) : i \in 1..n}

\* C15: expansion count.  The iterations value reported by either driver is
\* the number of distinct keys moved into the closed set before the goal was
\* extracted, which is the number of non-goal states extracted from the open
\* list; the goal itself is not counted, and in the traced driver the count is
\* taken before backtracking removes entries from the closed map.
C15_ExpansionCount ==
    /\ u_result # None
          => LET iterations == u_result[1].iterations
             IN  /\ iterations = Cardinality(u_closed_list)
                 /\ u_closed_list = KeysOf(u_trace, Len(u_trace) - 1)
                 /\ iterations = Cardinality(NonGoals(u_trace))
                 /\ iterations = Len(u_trace) - 1
    /\ t_result # None
          => LET iterations == t_result[1].iterations
             IN  /\ iterations = Cardinality(DOMAIN t_goal[1].closed)
                 /\ DOMAIN t_goal[1].closed = KeysOf(t_trace, Len(t_trace) - 1)
                 /\ iterations = Cardinality(NonGoals(t_trace))
                 /\ iterations = Len(t_trace) - 1

\* both drivers report two expansions, and backtracking has taken one of the
\* two keys out of the closed map of the traced driver
C15_Witness ==
    /\ u_result # None /\ u_result[1].iterations = 2
    /\ t_result # None /\ t_result[1].iterations = 2
    /\ Cardinality(DOMAIN t_closed_list) = 1

\* a successor of the j-th extracted state, generated[j] being its successors,
\* has the key the i-th was closed under, and a lower f() than the i-th
LowerFDiscarded(trace, generated) ==
    \E j \in NonGoals(trace) : \E i \in 1..j :
        \E n \in 1..Len(generated[j]) :
            /\ key(generated[j][n]) = key(trace[i])
            /\ f(generated[j][n]) < f(trace[i])

\* C19: no reopening.  A successor whose key is already in the closed set is
\* discarded, even when its f() is lower than the f() of the state that was
\* closed under that key: at every loop-iteration boundary of either driver no
\* key is both in the open list and in the closed set, and no key is closed
\* twice.
C19_NoReopening ==
    /\ HeldKeys(u_open_list) \cap u_closed_list = {}
    /\ HeldKeys(t_open_list) \cap DOMAIN t_closed_list = {}
    /\ t_goal # None => HeldKeys(t_open_list) \cap DOMAIN t_goal[1].closed = {}
    /\ Cardinality(NonGoals(u_trace)) = Cardinality(u_closed_list)
    /\ t_goal = None => Cardinality(NonGoals(t_trace))
                           = Cardinality(DOMAIN t_closed_list)

\* both drivers have finished a search in which a successor of lower f() than
\* the state closed under its key was generated
C19_Witness ==
    /\ Done
    /\ LowerFDiscarded(u_trace, [j \in 1..Len(u_trace) |->
                                    generate_successors(u_trace[j])])
    /\ LowerFDiscarded(t_trace, [j \in 1..Len(t_trace) |->
                                    generate_states(t_trace[j])])

\* C20: goal detection happens at extraction.  The state a driver returns is
\* the first extracted state satisfying is_goal(), and at the moment of return
\* its f() is <= the f() of every entry still in the open list.
C20_GoalAtExtraction ==
    /\ u_result # None
          => LET returned == u_result[1].final_state
             IN  /\ returned = u_trace[Len(u_trace)]
                 /\ is_goal(returned)
                 /\ \A i \in 1..(Len(u_trace) - 1) : ~is_goal(u_trace[i])
                 /\ \A e \in Entries(u_open_list) : f(returned) <= f(e[2])
    /\ t_result # None
          => LET returned == t_result[1].final_state
             IN  /\ returned = t_trace[Len(t_trace)].state
                 /\ is_goal(returned)
                 /\ \A i \in 1..(Len(t_trace) - 1) : ~is_goal(t_trace[i])
                 /\ \A e \in Entries(t_open_list) : f(returned) <= f(e[2])

\* the goal both drivers return was generated from the start state, and a
\* state of lower f() was extracted before it
C20_Witness ==
    /\ u_result # None /\ t_result # None
    /\ Len(u_trace) = 3 /\ Len(t_trace) = 3
    /\ \E n \in 1..Len(generate_successors(initial_state)) :
          generate_successors(initial_state)[n] = u_result[1].final_state
    /\ f(u_trace[2]) < f(u_result[1].final_state)
    /\ f(t_trace[2]) < f(t_result[1].final_state)

(***************************************************************************)
(* The traced driver against the untraced one, and its bookkeeping.        *)
(***************************************************************************)
\* the states of the wrappers extracted so far are the states the untraced
\* driver extracted, in the same order
SameExtractions ==
    /\ Len(t_trace) <= Len(u_trace)
    /\ \A i \in 1..Len(t_trace) :
          /\ t_trace[i].state = u_trace[i]
          /\ key(t_trace[i]) = key(u_trace[i])

\* C21: the traced driver follows the same loop and termination rules as the
\* untraced driver.  For the same start state, generate_traced_successors
\* yielding the successor states of generate_successors in the same order,
\* both drivers extract the same sequence of keys, return None together or
\* not at all, and report equal iterations and the same final state.
C21_SameAsUntraced ==
    /\ \A i \in 1..Len(t_trace) :
          [n \in 1..Len(generate_states(t_trace[i])) |->
              generate_states(t_trace[i])[n].state]
             = generate_successors(t_trace[i].state)
    /\ SameExtractions
    /\ Done
          => /\ Len(t_trace) = Len(u_trace)
             /\ u_result = None <=> t_result = None
             /\ u_result # None
                   => /\ t_result[1].iterations = u_result[1].iterations
                      /\ t_result[1].final_state = u_result[1].final_state

\* both drivers have returned the same goal after two expansions each, the
\* second of a state whose h() is not zero
C21_Witness ==
    /\ Done
    /\ u_result # None /\ t_result # None
    /\ u_result[1].iterations = 2 /\ t_result[1].iterations = 2
    /\ h(u_trace[2]) > 0 /\ h(t_trace[2]) > 0

\* C22: backtracking in traced_astar terminates, and with stable keys it ends
\* by reaching the wrapper with no predecessor, the start state, never through
\* the exit taken when a key is not found in the closed map; each ancestor on
\* the chain is a distinct closed key, taken out of the closed map as it is
\* passed, so the length of the returned path is <= iterations.
C22_BacktrackingReachesStart ==
    t_goal # None
    => LET path == t_result[1].path
           closed == DOMAIN t_goal[1].closed
           left == DOMAIN t_closed_list
       IN  /\ t_goal[1].exit = "start"
           /\ left \subseteq closed
           /\ Cardinality(closed \ left) = Len(path)
           /\ Len(path) <= t_result[1].iterations
           /\ key(initial_state) \notin left \/ path = <<>>

\* backtracking went from the goal over one closed ancestor to the start and
\* left the closed map empty
C22_Witness ==
    /\ t_goal # None
    /\ t_goal[1].exit = "start"
    /\ Len(t_result[1].path) = 2
    /\ t_closed_list = EmptyMap

\* the closed map as the loop of traced_astar last left it, before any
\* backtracking
ClosedAtBoundary == IF t_goal # None THEN t_goal[1].closed ELSE t_closed_list

\* the wrappers in the open list, in the closed map and extracted
Wrappers ==
    {e[2] : e \in Entries(t_open_list)}
       \cup {ClosedAtBoundary[k] : k \in DOMAIN ClosedAtBoundary}
       \cup {t_trace[i] : i \in 1..Len(t_trace)}

\* wrapper is the start wrapper, or what the state closed under its
\* predecessor key generated, under the label of that transition
Bookkept(wrapper) ==
    IF wrapper.prev_key = None
    THEN wrapper = TracedStateWrapper_new(initial_state)
    ELSE /\ wrapper.change # None
         /\ wrapper.prev_key[1] \in DOMAIN ClosedAtBoundary
         /\ LET parent == ClosedAtBoundary[wrapper.prev_key[1]]
            IN  \E n \in 1..Len(generate_states(parent)) :
                   /\ generate_states(parent)[n] = wrapper
                   /\ generate_traced_successors(parent.state)[n]
                         = <<wrapper.state, wrapper.change[1]>>

\* C23: predecessor bookkeeping of traced_astar.  Every wrapper in the open
\* list or the closed map other than the start has a predecessor key that is
\* in the closed map, and its label is the transition by which the state
\* closed under that key generated it, also after insert has replaced an open
\* entry with one of lower f(); only the start wrapper has no predecessor and
\* no label.
C23_PredecessorBookkeeping ==
    /\ \A wrapper \in Wrappers :
          /\ Bookkept(wrapper)
          /\ wrapper.prev_key = None <=> wrapper.change = None
    /\ \A e \in Entries(t_open_list) : e[1] = key(e[2])
    /\ \A k \in DOMAIN ClosedAtBoundary : key(ClosedAtBoundary[k]) = k

\* a wrapper was closed that had replaced, in the open list, a wrapper of the
\* same key and higher f() generated earlier from another predecessor
C23_Witness ==
    \E j \in 1..Len(t_trace) : \E i \in 1..(j - 1) :
        \E k \in DOMAIN ClosedAtBoundary :
            LET wrapper == ClosedAtBoundary[k]
            IN  /\ wrapper.prev_key = Some(key(t_trace[j]))
                /\ key(t_trace[i]) # key(t_trace[j])
                /\ \E n \in 1..Len(generate_states(t_trace[i])) :
                      /\ key(generate_states(t_trace[i])[n]) = k
                      /\ f(generate_states(t_trace[i])[n]) > f(wrapper)

=============================================================================
